---- MODULE Spec2Model ----
(***************************************************************************)
(* pyramid_multiauth: a Pyramid authentication policy that stacks other    *)
(* authentication policies (MultiAuthenticationPolicy), and the includeme  *)
(* hook that builds the stack from the application settings.               *)
(*                                                                         *)
(* Two specifications share the variables:                                 *)
(*   SpecServe  the five operations of MultiAuthenticationPolicy applied   *)
(*              to a request, for every backend list and group callback;   *)
(*   SpecSetup  includeme, policy_factory_from_include and the deferred    *)
(*              actions they register, run by the host at commit time.     *)
(***************************************************************************)
EXTENDS Integers, Sequences, FiniteSets

VARIABLES
    policies,   \* MultiAuthenticationPolicy._policies (the shared list)
    callback,   \* MultiAuthenticationPolicy._callback
    op,         \* the operation the last request invoked
    request,    \* what each backend answers for that request
    result,     \* the value the operation returned
    raised,     \* the exception it raised, or NoException
    calls,      \* the backends the operation called, in call order
    pc,         \* where the setup phase stands
    settings,   \* config.get_settings()
    modules,    \* what including each include-style unit does
    groupfinder,        \* includeme's local groupfinder
    policy_definitions, \* includeme's local policy_definitions
    idx,                \* position of the for loop over reversed(policy_names)
    policy_factories,   \* includeme's local policy_factories
    registry,   \* config.registry.queryUtility(IAuthenticationPolicy)
    actions,    \* config.action_state.actions
    executed,   \* the pending actions the host has run at commit time
    authz,      \* the authorization policy in force in the host
    invoked     \* the declarations whose factory grab_policies called, in order

serveVars == <<op, request, result, calls>>
setupVars == <<pc, settings, modules, groupfinder, policy_definitions, idx,
               policy_factories, registry, actions, executed, authz, invoked>>
vars == <<policies, callback, raised, serveVars, setupVars>>

(***************************************************************************)
(* Values                                                                  *)
(***************************************************************************)
None == "None"
NoException == "NoException"
Everyone == "system.Everyone"
Authenticated == "system.Authenticated"

\* Longest backend list a request is served with.
MaxPolicies == 3

Backends == {"b1", "b2", "b3"}
Userids == {"u1", "u2"}
Groups == {"group:staff"}

MaybeUserid == Userids \cup {None}

\* What a backend's effective_principals may return.
BackendPrincipals == {{}, {"group:admins"}, {Authenticated, "u1"}}

\* What a backend's remember / forget may return.
HeaderSeqs == {<<>>, <<"H1">>, <<"H2", "H3">>}

\* A groupfinder returns a collection of groups, or None.
NoGroups == [none |-> TRUE, groups |-> {}]
GroupResults == {NoGroups} \cup {[none |-> FALSE, groups |-> g] : g \in SUBSET Groups}

NoCallback == [configured |-> FALSE, finder |-> [u \in Userids |-> NoGroups]]
Callbacks ==
    {NoCallback} \cup
    {[configured |-> TRUE, finder |-> f] : f \in [Userids -> GroupResults]}

PolicyLists == UNION {[1..n -> Backends] : n \in 0..MaxPolicies}

Range(s) == {s[i] : i \in 1..Len(s)}

(***************************************************************************)
(* MultiAuthenticationPolicy                                               *)
(***************************************************************************)

\* Faulty variant of AuthLoop: the loop is left on the first non-none userid,
\* whatever the callback says of it.
RECURSIVE AuthLoopFirstNonNone(_, _, _, _, _)
AuthLoopFirstNonNone(pols, cb, auth, i, userid) ==
    IF i > Len(pols) THEN userid
    ELSE LET u == auth[pols[i]] IN
         IF u # None THEN u
         ELSE AuthLoopFirstNonNone(pols, cb, auth, i + 1, u)

\* The for loop of authenticated_userid: userid is overwritten by every
\* backend's answer; the loop is left only on a userid the callback accepts.
RECURSIVE AuthLoop(_, _, _, _, _)
AuthLoop(pols, cb, auth, i, userid) ==
    IF i > Len(pols) THEN userid
    ELSE LET u == auth[pols[i]] IN
         IF u # None /\ cb.configured /\ ~cb.finder[u].none
         THEN u
         ELSE AuthLoop(pols, cb, auth, i + 1, u)

authenticated_userid(pols, cb, auth) == AuthLoop(pols, cb, auth, 1, None)

RECURSIVE UnauthLoop(_, _, _, _)
UnauthLoop(pols, unauth, i, userid) ==
    IF i > Len(pols) THEN userid
    ELSE LET u == unauth[pols[i]] IN
         IF u # None THEN u
         ELSE UnauthLoop(pols, unauth, i + 1, u)

unauthenticated_userid(pols, unauth) == UnauthLoop(pols, unauth, 1, None)

\* principals.update(policy.effective_principals(request)) for each policy.
RECURSIVE PrincipalsLoop(_, _, _, _)
PrincipalsLoop(pols, princ, i, principals) ==
    IF i > Len(pols) THEN principals
    ELSE PrincipalsLoop(pols, princ, i + 1, principals \cup princ[pols[i]])

\* Faulty variant of effective_principals: Authenticated is not added.
effective_principals_no_authenticated(pols, cb, req) ==
    LET principals == PrincipalsLoop(pols, req.princ, 1, {Everyone})
        userid == unauthenticated_userid(pols, req.unauth)
    IN  IF cb.configured /\ userid # None
        THEN LET groups == cb.finder[userid] IN
             IF groups.none
             THEN [raised |-> "TypeError", value |-> {}]
             ELSE [raised |-> NoException,
                   value |-> principals \cup {userid} \cup groups.groups]
        ELSE [raised |-> NoException, value |-> principals]

\* principals.update(None) raises TypeError: None is not iterable.
effective_principals(pols, cb, req) ==
    LET principals == PrincipalsLoop(pols, req.princ, 1, {Everyone})
        userid == unauthenticated_userid(pols, req.unauth)
    IN  IF cb.configured /\ userid # None
        THEN LET groups == cb.finder[userid] IN
             IF groups.none
             THEN [raised |-> "TypeError", value |-> {}]
             ELSE [raised |-> NoException,
                   value |-> principals \cup {userid, Authenticated}
                                        \cup groups.groups]
        ELSE [raised |-> NoException, value |-> principals]

\* Faulty variant of RememberLoop: the loop stops once it has headers.
RECURSIVE RememberLoopStopAtHeaders(_, _, _, _, _)
RememberLoopStopAtHeaders(pols, rem, i, headers, called) ==
    IF i > Len(pols) \/ headers # <<>>
    THEN [headers |-> headers, called |-> called]
    ELSE RememberLoopStopAtHeaders(pols, rem, i + 1, headers \o rem[pols[i]],
                                   Append(called, pols[i]))

\* The for loop of remember: headers.extend(policy.remember(...)).
RECURSIVE RememberLoop(_, _, _, _, _)
RememberLoop(pols, rem, i, headers, called) ==
    IF i > Len(pols)
    THEN [headers |-> headers, called |-> called]
    ELSE RememberLoop(pols, rem, i + 1, headers \o rem[pols[i]],
                      Append(called, pols[i]))

remember(pols, rem) == RememberLoop(pols, rem, 1, <<>>, <<>>)

\* The for loop of forget: headers.extend(policy.forget(request)).
RECURSIVE ForgetLoop(_, _, _, _, _)
ForgetLoop(pols, fgt, i, headers, called) ==
    IF i > Len(pols)
    THEN [headers |-> headers, called |-> called]
    ELSE ForgetLoop(pols, fgt, i + 1, headers \o fgt[pols[i]],
                    Append(called, pols[i]))

forget(pols, fgt) == ForgetLoop(pols, fgt, 1, <<>>, <<>>)

(***************************************************************************)
(* Serving phase: one request at a time against a populated policy.       *)
(***************************************************************************)
InitServe ==
    /\ policies \in PolicyLists
    /\ callback \in Callbacks
    /\ op = "none"
    /\ request = <<>>
    /\ result = None
    /\ raised = NoException
    /\ calls = <<>>
    /\ pc = "serving"
    /\ settings = <<>>
    /\ modules = <<>>
    /\ groupfinder = NoCallback
    /\ policy_definitions = <<>>
    /\ idx = 0
    /\ policy_factories = <<>>
    /\ registry = None
    /\ actions = <<>>
    /\ executed = {}
    /\ authz = None
    /\ invoked = <<>>

AuthenticatedUserid ==
    /\ op = "none"
    /\ \E auth \in [Range(policies) -> MaybeUserid] :
        /\ op' = "authenticated_userid"
        /\ request' = [auth |-> auth]
        /\ result' = authenticated_userid(policies, callback, auth)
        /\ raised' = NoException
        /\ calls' = <<>>
        /\ UNCHANGED <<policies, callback, setupVars>>

UnauthenticatedUserid ==
    /\ op = "none"
    /\ \E unauth \in [Range(policies) -> MaybeUserid] :
        /\ op' = "unauthenticated_userid"
        /\ request' = [unauth |-> unauth]
        /\ result' = unauthenticated_userid(policies, unauth)
        /\ raised' = NoException
        /\ calls' = <<>>
        /\ UNCHANGED <<policies, callback, setupVars>>

EffectivePrincipals ==
    /\ op = "none"
    /\ \E unauth \in [Range(policies) -> MaybeUserid],
       princ \in [Range(policies) -> BackendPrincipals] :
        LET req == [unauth |-> unauth, princ |-> princ]
            out == effective_principals(policies, callback, req)
        IN  /\ op' = "effective_principals"
            /\ request' = req
            /\ result' = out.value
            /\ raised' = out.raised
            /\ calls' = <<>>
            /\ UNCHANGED <<policies, callback, setupVars>>

Remember ==
    /\ op = "none"
    /\ \E rem \in [Range(policies) -> HeaderSeqs] :
        LET out == remember(policies, rem)
        IN  /\ op' = "remember"
            /\ request' = [headers |-> rem]
            /\ result' = out.headers
            /\ raised' = NoException
            /\ calls' = out.called
            /\ UNCHANGED <<policies, callback, setupVars>>

Forget ==
    /\ op = "none"
    /\ \E fgt \in [Range(policies) -> HeaderSeqs] :
        LET out == forget(policies, fgt)
        IN  /\ op' = "forget"
            /\ request' = [headers |-> fgt]
            /\ result' = out.headers
            /\ raised' = NoException
            /\ calls' = out.called
            /\ UNCHANGED <<policies, callback, setupVars>>

\* The response is handed back; the policy is ready for the next request.
Respond ==
    /\ op # "none"
    /\ op' = "none"
    /\ request' = <<>>
    /\ result' = None
    /\ raised' = NoException
    /\ calls' = <<>>
    /\ UNCHANGED <<policies, callback, setupVars>>

NextServe ==
    \/ Respond
    \/ AuthenticatedUserid
    \/ UnauthenticatedUserid
    \/ EffectivePrincipals
    \/ Remember
    \/ Forget

SpecServe == InitServe /\ [][NextServe]_vars

(***************************************************************************)
(* Setup phase: settings, the host's configurator, includeme               *)
(***************************************************************************)
\* Most policies one multiauth.policies setting declares.
MaxDecl == 3

IAuthenticationPolicy == "IAuthenticationPolicy"
IAuthorizationPolicy == "IAuthorizationPolicy"
Multi == "MultiAuthenticationPolicy"
ACLAuthorizationPolicy == "ACLAuthorizationPolicy"

\* The i-th declared name, the dotted factory an explicit declaration of it
\* uses, and the backend the declaration yields.
PolicyNameTable == <<"p1", "p2", "p3", "p4", "p5">>
FactoryTable == <<"pkg.factory1", "pkg.factory2", "pkg.factory3",
                  "pkg.factory4", "pkg.factory5">>
BackendTable == <<"b1", "b2", "b3", "b4", "b5">>
IndexOf(table, x) == CHOOSE i \in 1..Len(table) : table[i] = x

\* How a name is declared: by a callable (with or without its "use" key),
\* or by a unit to include that installs its policy at once, leaves a
\* pending action that installs it, or installs no policy at all.
Kinds == {"explicit", "nouse", "sync", "deferred", "nothing"}
IncludeKinds == {"sync", "deferred", "nothing"}

GroupfinderRef == "app.security.groupfinder"
GroupfinderKey == <<"multiauth", "policy", "groupfinder">>
PoliciesKey == <<"multiauth", "policies">>

\* The callable a dotted reference resolves to.
ResolvedGroupfinder ==
    [configured |-> TRUE,
     finder |-> [u \in Userids |-> [none |-> FALSE, groups |-> Groups]]]

\* Setting keys are held as their dot-separated segments.
PolicyKey(i, setting) == <<"multiauth", "policy", PolicyNameTable[i], setting>>

SettingsKeys(kinds, gf) ==
    {PoliciesKey, <<"pyramid", "reload_templates">>}
    \cup {PolicyKey(i, "use") : i \in {j \in DOMAIN kinds : kinds[j] = "explicit"}}
    \cup {PolicyKey(i, "userid") :
              i \in {j \in DOMAIN kinds : kinds[j] \in {"explicit", "nouse"}}}
    \cup (IF gf THEN {GroupfinderKey} ELSE {})

SettingsValue(key, kinds) ==
    IF key = PoliciesKey THEN [i \in DOMAIN kinds |-> PolicyNameTable[i]]
    ELSE IF key = GroupfinderKey THEN GroupfinderRef
    ELSE IF Len(key) = 4 /\ key[4] = "use"
         THEN FactoryTable[IndexOf(PolicyNameTable, key[3])]
    ELSE "local"

SettingsFor(kinds, gf) ==
    [key \in SettingsKeys(kinds, gf) |-> SettingsValue(key, kinds)]

\* settings.get("multiauth.policies", "").split()
policy_names == settings[PoliciesKey]

\* config.maybe_dotted(groupfinder)
maybe_dotted_groupfinder(value) ==
    IF value = None THEN NoCallback ELSE ResolvedGroupfinder

\* name.startswith("multiauth.policy.")
StartsWithPolicyPrefix(key) ==
    Len(key) >= 3 /\ key[1] = "multiauth" /\ key[2] = "policy"

\* name[len("multiauth.policy."):].split(".", 1)
SplitOnce(key) ==
    IF Len(key) = 3 THEN <<key[3]>>
    ELSE <<key[3], SubSeq(key, 4, Len(key))>>

\* The loop over settings.iteritems(): unpacking a split of one element
\* into policy_name, setting_name raises ValueError.
ParsePolicyDefinitions(stg) ==
    LET keys == {k \in DOMAIN stg : StartsWithPolicyPrefix(k)}
        names == {SplitOnce(k)[1] : k \in keys}
    IN  IF \E k \in keys : Len(SplitOnce(k)) # 2
        THEN [raised |-> "ValueError", value |-> <<>>]
        ELSE [raised |-> NoException,
              value |-> [n \in names |->
                           [sn \in {SplitOnce(k)[2] : k \in {x \in keys : SplitOnce(x)[1] = n}}
                               |-> stg[<<"multiauth", "policy", n>> \o sn]]]]

\* A pending action of the host: its discriminator, what running it does,
\* and whether a unit included by includeme (nested) registered it.
AuthnAction(policy, nested) ==
    [discriminator |-> IAuthenticationPolicy, callable |-> "register",
     policy |-> policy, order |-> "PHASE2_CONFIG", nested |-> nested]
ViewAction(name) ==
    [discriminator |-> name, callable |-> "add_view",
     policy |-> None, order |-> "default", nested |-> TRUE]
GrabPoliciesAction ==
    [discriminator |-> None, callable |-> "grab_policies",
     policy |-> None, order |-> "PHASE2_CONFIG", nested |-> FALSE]
AuthzAction ==
    [discriminator |-> IAuthorizationPolicy, callable |-> "register",
     policy |-> ACLAuthorizationPolicy, order |-> "PHASE1_CONFIG", nested |-> FALSE]

\* config.include(module): what the unit's own includeme does to the host.
Include(reg, acts, module) ==
    LET backend == BackendTable[IndexOf(PolicyNameTable, module)]
    IN  CASE modules[module] = "sync" ->
                [registry |-> backend, actions |-> acts]
          [] modules[module] = "deferred" ->
                [registry |-> reg,
                 actions |-> acts \o <<AuthnAction(backend, TRUE), ViewAction(module)>>]
          [] OTHER ->
                [registry |-> reg, actions |-> acts]

\* The factories policy_factories holds.
ConstFactory(policy) == [type |-> "lambda_policy", policy |-> policy]
GrabPolicyFactory(action) == [type |-> "grab_policy", policy |-> action.policy]
NullFactory == [type |-> "lambda_none", policy |-> None]
CallableFactory(ref) ==
    [type |-> "callable", policy |-> BackendTable[IndexOf(FactoryTable, ref)]]

policy_factory_from_include(reg, acts, module) ==
    LET orig_policy == reg
        inc == Include(reg, acts, module)
        policy == inc.registry
        pending == {i \in 1..Len(inc.actions) :
                       inc.actions[i].discriminator = IAuthenticationPolicy}
        factory ==
            IF policy # None /\ policy # orig_policy THEN ConstFactory(policy)
            ELSE IF pending # {}
                 THEN GrabPolicyFactory(
                          inc.actions[CHOOSE i \in pending : \A j \in pending : j <= i])
            ELSE NullFactory
    IN  [factory |-> factory, registry |-> inc.registry, actions |-> inc.actions]

\* factory(**kwds): grab_policy runs the registration it captured and reads
\* the registry back.
CallFactory(factory, reg) ==
    IF factory.type = "grab_policy"
    THEN [policy |-> factory.policy, registry |-> factory.policy]
    ELSE [policy |-> factory.policy, registry |-> reg]

\* Faulty variant of InsertPolicy: the policy is appended.
InsertPolicyAtEnd(pols, policy) ==
    IF policy # None /\ (pols = <<>> \/ policy # pols[1])
    THEN Append(pols, policy)
    ELSE pols

\* policies.insert(0, policy), guarded as in grab_policies.
InsertPolicy(pols, policy) ==
    IF policy # None /\ (pols = <<>> \/ policy # pols[1])
    THEN <<policy>> \o pols
    ELSE pols

RECURSIVE GrabLoop(_, _, _, _, _)
GrabLoop(factories, i, pols, reg, inv) ==
    IF i > Len(factories)
    THEN [policies |-> pols, registry |-> reg, invoked |-> inv]
    ELSE LET out == CallFactory(factories[i].factory, reg)
         IN  GrabLoop(factories, i + 1, InsertPolicy(pols, out.policy),
                      out.registry, Append(inv, factories[i].decl))

grab_policies(factories, pols, reg) == GrabLoop(factories, 1, pols, reg, <<>>)

InitSetup ==
    /\ \E n \in 0..MaxDecl : \E kinds \in [1..n -> Kinds] : \E gf \in BOOLEAN :
          /\ settings = SettingsFor(kinds, gf)
          /\ modules = [m \in {PolicyNameTable[i] :
                                  i \in {j \in 1..n : kinds[j] \in IncludeKinds}}
                           |-> kinds[IndexOf(PolicyNameTable, m)]]
    /\ authz \in {None, "app_authorization_policy"}
    /\ pc = "includeme"
    /\ policies = <<>>
    /\ callback = NoCallback
    /\ raised = NoException
    /\ op = "none"
    /\ request = <<>>
    /\ result = None
    /\ calls = <<>>
    /\ groupfinder = NoCallback
    /\ policy_definitions = <<>>
    /\ idx = 0
    /\ policy_factories = <<>>
    /\ registry = None
    /\ actions = <<>>
    /\ executed = {}
    /\ invoked = <<>>

\* includeme, lines 170-184: the groupfinder and the policy definitions.
ReadSettings ==
    /\ pc = "includeme"
    /\ LET parsed == ParsePolicyDefinitions(settings)
       IN  /\ groupfinder' = maybe_dotted_groupfinder(
                                 IF GroupfinderKey \in DOMAIN settings
                                 THEN settings[GroupfinderKey] ELSE None)
           /\ raised' = parsed.raised
           /\ policy_definitions' = parsed.value
           /\ pc' = IF parsed.raised = NoException THEN "resolve" ELSE "error"
    /\ idx' = Len(policy_names)
    /\ UNCHANGED <<policies, callback, serveVars, settings, modules,
                   policy_factories, registry, actions, executed, authz, invoked>>

\* One iteration of the loop over reversed(policy_names), callable branch.
ResolveCallable ==
    /\ pc = "resolve"
    /\ idx >= 1
    /\ policy_names[idx] \in DOMAIN policy_definitions
    /\ LET name == policy_names[idx]
           definition == policy_definitions[name]
       IN  /\ <<"use">> \in DOMAIN definition
           /\ policy_definitions' =
                  [policy_definitions EXCEPT ![name] =
                      [sn \in DOMAIN definition \ {<<"use">>} |-> definition[sn]]]
           /\ policy_factories' =
                  Append(policy_factories,
                         [factory |-> CallableFactory(definition[<<"use">>]),
                          kwds |-> policy_definitions'[name],
                          decl |-> idx])
    /\ idx' = idx - 1
    /\ UNCHANGED <<policies, callback, raised, serveVars, pc, settings, modules,
                   groupfinder, registry, actions, executed, authz, invoked>>

\* definition.pop("use") raises KeyError when the definition has no "use".
ResolveCallableNoUse ==
    /\ pc = "resolve"
    /\ idx >= 1
    /\ policy_names[idx] \in DOMAIN policy_definitions
    /\ <<"use">> \notin DOMAIN policy_definitions[policy_names[idx]]
    /\ raised' = "KeyError"
    /\ pc' = "error"
    /\ UNCHANGED <<policies, callback, serveVars, settings, modules, groupfinder,
                   policy_definitions, idx, policy_factories, registry, actions,
                   executed, authz, invoked>>

\* One iteration of the loop, include branch.
ResolveInclude ==
    /\ pc = "resolve"
    /\ idx >= 1
    /\ policy_names[idx] \notin DOMAIN policy_definitions
    /\ LET out == policy_factory_from_include(registry, actions, policy_names[idx])
       IN  /\ policy_factories' =
                  Append(policy_factories,
                         [factory |-> out.factory, kwds |-> <<>>, decl |-> idx])
           /\ registry' = out.registry
           /\ actions' = out.actions
    /\ idx' = idx - 1
    /\ UNCHANGED <<policies, callback, raised, serveVars, pc, settings, modules,
                   groupfinder, policy_definitions, executed, authz, invoked>>

\* Faulty variant of InstallPolicy: the default authorization policy is
\* registered only when the host has none.
InstallPolicyUnlessAuthz ==
    /\ pc = "resolve"
    /\ idx = 0
    /\ policies' = <<>>
    /\ callback' = groupfinder
    /\ actions' = actions \o <<AuthnAction(Multi, FALSE), GrabPoliciesAction>>
                          \o (IF authz = None THEN <<AuthzAction>> ELSE <<>>)
    /\ pc' = "commit"
    /\ UNCHANGED <<raised, serveVars, settings, modules, groupfinder,
                   policy_definitions, idx, policy_factories, registry,
                   executed, authz, invoked>>

\* includeme, lines 204-218: the policy is created over the empty shared
\* list and its registration, grab_policies and the default authorization
\* policy are handed to the host.
InstallPolicy ==
    /\ pc = "resolve"
    /\ idx = 0
    /\ policies' = <<>>
    /\ callback' = groupfinder
    /\ actions' = actions \o <<AuthnAction(Multi, FALSE), GrabPoliciesAction, AuthzAction>>
    /\ pc' = "commit"
    /\ UNCHANGED <<raised, serveVars, settings, modules, groupfinder,
                   policy_definitions, idx, policy_factories, registry,
                   executed, authz, invoked>>

(***************************************************************************)
(* The host's commit: pending actions run phase by phase; a registration   *)
(* made by an included unit is overridden by the includer's registration   *)
(* for the same discriminator and is not run by the host.                  *)
(***************************************************************************)
PhaseOf(action) ==
    CASE action.order = "PHASE1_CONFIG" -> 1
      [] action.order = "PHASE2_CONFIG" -> 2
      [] OTHER -> 3

Overridden(i) ==
    /\ actions[i].nested
    /\ \E j \in 1..Len(actions) :
           /\ ~actions[j].nested
           /\ actions[j].discriminator = actions[i].discriminator

Runnable == {i \in 1..Len(actions) : i \notin executed /\ ~Overridden(i)}

\* The actions the host may run next: those of the earliest pending phase.
NextToRun == {i \in Runnable : \A j \in Runnable : PhaseOf(actions[i]) <= PhaseOf(actions[j])}

Ran(i) ==
    /\ executed' = executed \cup {i}
    /\ pc' = IF Runnable \ {i} = {} THEN "done" ELSE "commit"

\* The registration placed by config.set_authorization_policy; one the
\* application configures explicitly takes precedence over it.
RunSetAuthorizationPolicy ==
    /\ pc = "commit"
    /\ \E i \in NextToRun :
          /\ actions[i].discriminator = IAuthorizationPolicy
          /\ authz' = IF authz = None THEN actions[i].policy ELSE authz
          /\ Ran(i)
    /\ UNCHANGED <<policies, callback, raised, serveVars, settings, modules,
                   groupfinder, policy_definitions, idx, policy_factories,
                   registry, actions, invoked>>

\* The registration placed by config.set_authentication_policy(authn_policy).
RunSetAuthenticationPolicy ==
    /\ pc = "commit"
    /\ \E i \in NextToRun :
          /\ actions[i].discriminator = IAuthenticationPolicy
          /\ registry' = actions[i].policy
          /\ Ran(i)
    /\ UNCHANGED <<policies, callback, raised, serveVars, settings, modules,
                   groupfinder, policy_definitions, idx, policy_factories,
                   actions, authz, invoked>>

\* The action placed by config.action(None, grab_policies, ...).
RunGrabPolicies ==
    /\ pc = "commit"
    /\ \E i \in NextToRun :
          /\ actions[i].callable = "grab_policies"
          /\ LET out == grab_policies(policy_factories, policies, registry)
             IN  /\ policies' = out.policies
                 /\ registry' = out.registry
                 /\ invoked' = out.invoked
          /\ Ran(i)
    /\ UNCHANGED <<callback, raised, serveVars, settings, modules, groupfinder,
                   policy_definitions, idx, policy_factories, actions, authz>>

\* The views and routes an included unit set up.
RunAddView ==
    /\ pc = "commit"
    /\ \E i \in NextToRun :
          /\ actions[i].callable = "add_view"
          /\ Ran(i)
    /\ UNCHANGED <<policies, callback, raised, serveVars, settings, modules,
                   groupfinder, policy_definitions, idx, policy_factories,
                   registry, actions, authz, invoked>>

NextSetup ==
    \/ ReadSettings
    \/ ResolveCallable
    \/ ResolveCallableNoUse
    \/ ResolveInclude
    \/ InstallPolicy
    \/ RunSetAuthorizationPolicy
    \/ RunSetAuthenticationPolicy
    \/ RunGrabPolicies
    \/ RunAddView

SpecSetup == InitSetup /\ [][NextSetup]_vars

(***************************************************************************)
(* Properties of the serving phase (checked under SpecServe)              *)
(***************************************************************************)
Min(S) == CHOOSE x \in S : \A y \in S : x <= y

\* The positions of the list whose backend answers non-none.
NonNoneAt(answers) == {i \in 1..Len(policies) : answers[policies[i]] # None}

\* The answer of the first backend in list order that answers non-none.
FirstNonNone(answers) ==
    IF NonNoneAt(answers) = {} THEN None
    ELSE answers[policies[Min(NonNoneAt(answers))]]

\* The positions after the first non-none one whose userid the callback accepts.
LaterAccepted(answers) ==
    {j \in NonNoneAt(answers) :
        /\ j > Min(NonNoneAt(answers))
        /\ ~callback.finder[answers[policies[j]]].none}

\* The callback is configured and rejects the first non-none authenticated userid.
FirstUseridRejected ==
    /\ op = "authenticated_userid"
    /\ callback.configured
    /\ NonNoneAt(request.auth) # {}
    /\ callback.finder[FirstNonNone(request.auth)].none

\* C1: authenticated_userid returns the userid of the first backend in list
\* order whose authenticated_userid is non-none, with or without a group
\* callback, and none only when every backend returns none.
C1_FirstNonNoneReturned ==
    op = "authenticated_userid" => result = FirstNonNone(request.auth)

UseridSeen ==
    /\ op = "effective_principals"
    /\ callback.configured
    /\ FirstNonNone(request.unauth) # None

\* C2 as stated (for the results that are returned): the result contains
\* Everyone, and contains Authenticated iff a callback is configured and the
\* composite unauthenticated_userid is non-none, whatever the backends return.
C2_AuthenticatedIffUserid ==
    (op = "effective_principals" /\ raised = NoException) =>
        /\ Everyone \in result
        /\ Authenticated \in result <=> UseridSeen

\* C2 as amended: effective_principals raises exactly when the callback
\* returns none for the userid; every result it returns contains Everyone,
\* and contains Authenticated iff a callback is configured and the userid is
\* non-none, or some backend's own principals contain Authenticated.
C2_AuthenticatedIffUseridOrBackend ==
    op = "effective_principals" =>
        /\ raised = "TypeError" <=>
               (UseridSeen /\ callback.finder[FirstNonNone(request.unauth)].none)
        /\ raised = NoException =>
               /\ Everyone \in result
               /\ Authenticated \in result <=>
                      \/ UseridSeen
                      \/ \E b \in Range(policies) : Authenticated \in request.princ[b]

\* C2 witness: no callback is configured, and the result holds Authenticated
\* because a backend returned it.
C2_Witness ==
    /\ op = "effective_principals"
    /\ raised = NoException
    /\ ~callback.configured
    /\ Authenticated \in result
    /\ Everyone \in result

\* C10: with a callback configured and a non-none unauthenticated userid u,
\* effective_principals returns normally for every callback result (groups or
\* none): Everyone, every backend's principals, u, Authenticated, and the
\* callback's groups when it returned any.
C10_ReturnsForEveryCallbackResult ==
    UseridSeen =>
        /\ raised = NoException
        /\ {Everyone, Authenticated, FirstNonNone(request.unauth)} \subseteq result
        /\ \A b \in Range(policies) : request.princ[b] \subseteq result
        /\ callback.finder[FirstNonNone(request.unauth)].groups \subseteq result

\* C5: remember and forget call every backend of the list exactly once, in
\* list order, and return the backends' header sequences concatenated in
\* that order; empty sequences and earlier headers make no backend skipped.
C5_HeadersConcatenated ==
    op \in {"remember", "forget"} =>
        LET n == Len(policies)
            hdrs(i) == request.headers[policies[i]]
            Offset[i \in 1..(n + 1)] ==
                IF i = 1 THEN 0 ELSE Offset[i - 1] + Len(hdrs(i - 1))
        IN  /\ calls = policies
            /\ Len(result) = Offset[n + 1]
            /\ \A i \in 1..n : \A k \in 1..Len(hdrs(i)) :
                   result[Offset[i] + k] = hdrs(i)[k]

\* C5 witness: three backends answer [H1], [], [H2, H3] to remember.
C5_Witness ==
    /\ op = "remember"
    /\ Len(policies) = 3
    /\ request.headers[policies[1]] = <<"H1">>
    /\ request.headers[policies[2]] = <<>>
    /\ request.headers[policies[3]] = <<"H2", "H3">>
    /\ result = <<"H1", "H2", "H3">>
    /\ calls = policies

(***************************************************************************)
(* Properties of the setup phase (checked under SpecSetup)                *)
(***************************************************************************)
\* How the i-th name of multiauth.policies is declared.
DeclKind(i) ==
    IF policy_names[i] \in DOMAIN modules THEN modules[policy_names[i]]
    ELSE IF PolicyKey(i, "use") \in DOMAIN settings THEN "explicit"
    ELSE "nouse"

\* The backends of the declarations that yield one, in declaration order.
DeclaredBackends ==
    LET Yields(i) == DeclKind(i) \in {"explicit", "sync", "deferred"}
        positions == SelectSeq([i \in 1..Len(policy_names) |-> i], Yields)
    IN  [k \in 1..Len(positions) |-> BackendTable[positions[k]]]

IncludemeReturned == pc \in {"commit", "done"}

AuthzRegistrations ==
    {i \in 1..Len(actions) : actions[i].discriminator = IAuthorizationPolicy}

\* C3: when every declaration yields its own backend, the factories are
\* called in reverse declaration order and after setup the shared list holds
\* the backends in declaration order, each exactly once.
C3_DeclarationOrder ==
    (pc = "done" /\ \A i \in 1..Len(policy_names) : DeclKind(i) # "nothing") =>
        /\ policies = [i \in 1..Len(policy_names) |-> BackendTable[i]]
        /\ invoked = [k \in 1..Len(policy_names) |-> Len(policy_names) + 1 - k]

\* C3 witness: a deferred include, a callable and a synchronous include.
C3_Witness ==
    /\ pc = "done"
    /\ Len(policy_names) = 3
    /\ DeclKind(1) = "deferred"
    /\ DeclKind(2) = "explicit"
    /\ DeclKind(3) = "sync"
    /\ policies = <<"b1", "b2", "b3">>
    /\ invoked = <<3, 2, 1>>

\* C4: an include whose unit installs no policy contributes no backend,
\* wherever it stands among the other declarations; the backends of the
\* others appear exactly once each, in declaration order.
C4_EmptyIncludeAddsNothing ==
    (pc = "done" /\ \E i \in 1..Len(policy_names) : DeclKind(i) = "nothing") =>
        policies = DeclaredBackends

\* C6 as stated: when the host already has an authorization policy,
\* includeme issues no registration of the default one.
C6_NoRegistrationWhenConfigured ==
    (IncludemeReturned /\ authz = "app_authorization_policy") =>
        AuthzRegistrations = {}

\* C6 as amended: includeme always issues exactly one registration of the
\* default ACL authorization policy, whether or not the host has one; after
\* setup a policy the host had is still the one in force, and the default
\* is in force otherwise.
C6_RegistrationUnconditional ==
    IncludemeReturned =>
        /\ Cardinality(AuthzRegistrations) = 1
        /\ \A i \in AuthzRegistrations : actions[i].policy = ACLAuthorizationPolicy
        /\ pc = "done" => authz \in {"app_authorization_policy", ACLAuthorizationPolicy}

\* C6 witness: the host had its own policy, the default was registered all
\* the same, and its registration has run.
C6_Witness ==
    /\ pc = "done"
    /\ authz = "app_authorization_policy"
    /\ Cardinality(AuthzRegistrations) = 1
    /\ AuthzRegistrations \subseteq executed

\* C7: with multiauth.policy.groupfinder in the settings includeme completes
\* without error, the key is not taken for a backend declaration, and the
\* installed policy's callback is the referenced callable; without the key
\* the callback is none.
C7_GroupfinderAccepted ==
    /\ GroupfinderKey \in DOMAIN settings =>
           /\ raised # "ValueError"
           /\ "groupfinder" \notin DOMAIN policy_definitions
    /\ IncludemeReturned =>
           callback = IF GroupfinderKey \in DOMAIN settings
                      THEN ResolvedGroupfinder ELSE NoCallback

\* C9: after the setup phase the authentication policy installed in the
\* host registry is the MultiAuthenticationPolicy, not an included backend.
C9_MultiPolicyInstalled ==
    pc = "done" => registry = Multi

====
